---- MODULE Spec2Model ----
(***************************************************************************)
(* whale: pick a docker container in a terminal list, then pick an action  *)
(* on it.  Model of src/whale.go: main's control flow, the two bubbletea   *)
(* models (containerChoice, actionChoice), the listing reader and the      *)
(* record parser.                                                          *)
(*                                                                         *)
(* A Go string is a sequence of one-character strings; "" is << >>.        *)
(* Go indices are 0-based and kept so (cursor), TLA+ sequences are 1-based:*)
(* the item at Go index i of s is s[i + 1].                                *)
(***************************************************************************)
EXTENDS Integers, Sequences, FiniteSets, TLC

\* Largest number of data rows the container runtime lists.
MaxRows == 3

\* Largest number of fields of a line handed to the parser on its own.
MaxTokens == 12

(***************************************************************************)
(* strings.TrimSpace, strings.Split, strings.Fields, strings.Join          *)
(***************************************************************************)
NL == "\n"

IsSpace(c) == c \in {" ", "\t", "\n", "\r"}

\* The k-th smallest element of a set of integers (k from 1).
Nth(S, k) == CHOOSE i \in S : Cardinality({ j \in S : j < i }) = k - 1

\* strings.TrimSpace(s): s without its leading and trailing white space.
TrimSpace(s) ==
    LET keep == { i \in 1..Len(s) : ~IsSpace(s[i]) }
    IN  IF keep = {} THEN << >>
        ELSE SubSeq(s, Nth(keep, 1), Nth(keep, Cardinality(keep)))

\* strings.Split(s, sep) for a one-character sep: the pieces between the
\* separators, empty pieces kept; always at least one piece.
Split(s, sep) ==
    LET at == { i \in 1..Len(s) : s[i] = sep }
        cut(k) == IF k = 0 THEN 0
                  ELSE IF k > Cardinality(at) THEN Len(s) + 1
                  ELSE Nth(at, k)
    IN  [ k \in 1..(Cardinality(at) + 1) |-> SubSeq(s, cut(k - 1) + 1, cut(k) - 1) ]

\* strings.Fields(s): the maximal runs of non-space characters, in order.
Fields(s) ==
    LET first == { i \in 1..Len(s) : ~IsSpace(s[i]) /\ (i = 1 \/ IsSpace(s[i - 1])) }
        last  == { i \in 1..Len(s) : ~IsSpace(s[i]) /\ (i = Len(s) \/ IsSpace(s[i + 1])) }
    IN  [ k \in 1..Cardinality(first) |-> SubSeq(s, Nth(first, k), Nth(last, k)) ]

\* strings.Join(elems, sep)
RECURSIVE Join(_, _)
Join(elems, sep) ==
    IF elems = << >> THEN << >>
    ELSE IF Len(elems) = 1 THEN elems[1]
    ELSE elems[1] \o sep \o Join(Tail(elems), sep)

(***************************************************************************)
(* The listing the container runtime prints (docker container ls -a):      *)
(* a header line, then one row per container.                              *)
(***************************************************************************)
Digits == << "0", "1", "2", "3", "4", "5", "6", "7", "8", "9" >>

Digit(i) == Digits[(i % 10) + 1]

HeaderLine ==
    Join(<< <<"C","O","N","T","A","I","N","E","R">>, <<"I","D">>,
            <<"I","M","A","G","E">>, <<"C","O","M","M","A","N","D">>,
            <<"C","R","E","A","T","E","D">>, <<"S","T","A","T","U","S">>,
            <<"P","O","R","T","S">>, <<"N","A","M","E","S">> >>, << " ", " ", " " >>)

\* The status and ports columns of row i: three shapes of a real listing
\* ("Created" with no port, "Up 2 d" with a port, "Exited (0) 4 w ago").
StatusTokens(i) ==
    CASE i % 3 = 1 -> << <<"U","p">>, << Digit(i) >>, <<"d">>, <<"8","0">> >>
      [] i % 3 = 2 -> << <<"C","r","e","a","t","e","d">> >>
      [] OTHER     -> << <<"E","x","i","t","e","d">>, <<"(","0",")">>,
                         << Digit(i) >>, <<"w">>, <<"a","g","o">> >>

\* Row i of the listing: id, image, command, created (3 tokens), status,
\* ports, name, in columns separated by runs of blanks.
Row(i) ==
    Join(<< <<"c", Digit(i)>>, <<"n","g">>, <<"s","h">>,
            << Digit(i) >>, <<"d">>, <<"a","g","o">> >>
         \o StatusTokens(i)
         \o << <<"w", Digit(i)>> >>, << " ", " " >>)

RECURSIVE Rows(_)
Rows(n) == IF n = 0 THEN << >> ELSE Rows(n - 1) \o << NL >> \o Row(n)

\* What `docker container ls -a` prints when n containers exist.
DockerOutput(n) == HeaderLine \o Rows(n) \o << NL >>

(***************************************************************************)
(* getContainers (lines 139-150): trim, split into lines, drop the first.  *)
(***************************************************************************)
\* Variant: the first line is not dropped.
GetContainersAll(output) == Split(TrimSpace(output), NL)

GetContainers(output) ==
    LET lines == Split(TrimSpace(output), NL)
    IN  SubSeq(lines, 2, Len(lines))

(***************************************************************************)
(* convertStringToContainer.  fields[0], fields[1], fields[2] and          *)
(* fields[3:6] panic (index / slice bounds out of range) on a line of      *)
(* fewer than 6 fields: strings.Fields returns a slice of capacity         *)
(* len(fields), so the slice expression cannot reach beyond it.            *)
(***************************************************************************)
Panic == [ panic |-> TRUE ]

\* The zero Container value (main's `container` before it is assigned).
NoContainer ==
    [ ID |-> << >>, Image |-> << >>, Command |-> << >>, Created |-> << >>,
      Status |-> << >>, Ports |-> << >>, Name |-> << >> ]

\* Variant: the status is taken from 10 fields on (>= for >).
ParseStatusFrom10(fields) ==
    IF Len(fields) >= 10 THEN Join(SubSeq(fields, 7, 10), << " " >>) ELSE << >>

ParseStatus(fields) ==
    IF Len(fields) > 10 THEN Join(SubSeq(fields, 7, 10), << " " >>) ELSE << >>

\* The field assignment of lines 367-387, for at least 6 fields.
ContainerOf(fields) ==
    [ ID      |-> fields[1],
      Image   |-> fields[2],
      Command |-> fields[3],
      Created |-> Join(SubSeq(fields, 4, 6), << " " >>),
      Status  |-> ParseStatus(fields),
      Ports   |-> << >>,
      Name    |-> fields[Len(fields)] ]

\* Variant: a line too short to parse gives the zero Container, no panic.
convertOrZero(str) ==
    IF Len(Fields(str)) < 6 THEN NoContainer ELSE ContainerOf(Fields(str))

convertStringToContainer(str) ==
    IF Len(Fields(str)) < 6 THEN Panic ELSE ContainerOf(Fields(str))

(***************************************************************************)
(* The two list models.  A message is the key name msg.String() gives for  *)
(* a tea.KeyMsg, or the name of another message type.                      *)
(***************************************************************************)
CancelKeys == { "q", "esc", "ctrl+c" }

KeyMsgs == CancelKeys \cup { "up", "down", "enter", "x" }

Msgs == KeyMsgs \cup { "WindowSizeMsg" }

\* items[cursor] is an index expression in range
InRange(items, cursor) == cursor >= 0 /\ cursor < Len(items)

\* Variant: the cursor starts on the first item.
initialContainerModelTop(cs) ==
    [ containers |-> cs, cursor |-> 0, selectedContainer |-> << >> ]

initialContainerModel(cs) ==
    [ containers |-> cs, cursor |-> Len(cs) - 1, selectedContainer |-> << >> ]

\* Variant: "up" stops at the first item instead of wrapping.
containerUpClamped(menu) == IF menu.cursor - 1 < 0 THEN 0 ELSE menu.cursor - 1

\* case "up": menu.cursor--, wrapped when below 0
containerUp(menu) ==
    IF menu.cursor - 1 < 0 THEN Len(menu.containers) - 1 ELSE menu.cursor - 1

\* Variant: "down" wraps one step late (> for >=).
containerDownLate(menu) ==
    IF menu.cursor + 1 > Len(menu.containers) THEN 0 ELSE menu.cursor + 1

\* Variant: "down" wraps to the second item.
containerDownSkip(menu) ==
    IF menu.cursor + 1 >= Len(menu.containers) THEN 1 ELSE menu.cursor + 1

\* case "down": menu.cursor++, wrapped when at or past the length
containerDown(menu) ==
    IF menu.cursor + 1 >= Len(menu.containers) THEN 0 ELSE menu.cursor + 1

\* Variant: "enter" takes the item the cursor started on.
containerEnterStale(menu) == menu.containers[Len(menu.containers)]

\* case "enter": menu.containers[menu.cursor], for a cursor in range
containerEnter(menu) == menu.containers[menu.cursor + 1]

\* Variant: cancelling puts the cursor back on the first item.
containerCancelReset(menu) == [ menu EXCEPT !.cursor = 0 ]

\* case "q", "esc", "ctrl+c": the model returned with tea.Quit
containerCancel(menu) == menu

\* Variant: a message that is not handled puts the cursor back on the last item.
containerOtherReset(menu) == [ menu EXCEPT !.cursor = Len(menu.containers) - 1 ]

\* no case matches (another key, or not a tea.KeyMsg): line 194 returns menu
containerOther(menu) == menu

\* containerChoice.Update: the new model and the command returned ("nil" or
\* "Quit"); cmd "panic" when containers[cursor] is out of range.
containerUpdate(menu, m) ==
    IF m \notin KeyMsgs THEN [ model |-> containerOther(menu), cmd |-> "nil" ]
    ELSE CASE m \in CancelKeys -> [ model |-> containerCancel(menu), cmd |-> "Quit" ]
           [] m = "up" ->
                [ model |-> [ menu EXCEPT !.cursor = containerUp(menu) ], cmd |-> "nil" ]
           [] m = "down" ->
                [ model |-> [ menu EXCEPT !.cursor = containerDown(menu) ], cmd |-> "nil" ]
           [] m = "enter" ->
                IF InRange(menu.containers, menu.cursor)
                THEN [ model |-> [ menu EXCEPT !.selectedContainer = containerEnter(menu) ],
                       cmd |-> "Quit" ]
                ELSE [ model |-> menu, cmd |-> "panic" ]
           [] OTHER -> [ model |-> containerOther(menu), cmd |-> "nil" ]

\* initialActionModel's actions (lines 249-252)
ActionLabels ==
    << <<"E","x","i","t">>,
       <<"C","o","p","y"," ","c","o","n","t","a","i","n","e","r"," ","I","D">> >>

\* doAction's case labels (lines 329 and 331)
ExitLabel == <<"E","x","i","t">>

CopyLabel == <<"C","o","p","y"," ","c","o","n","t","a","i","n","e","r"," ","I","D">>

initialActionModel(c) ==
    [ actions |-> ActionLabels, cursor |-> Len(ActionLabels) - 1,
      selectedAction |-> << >>, selectedContainer |-> c ]

actionUp(menu) ==
    IF menu.cursor - 1 < 0 THEN Len(menu.actions) - 1 ELSE menu.cursor - 1

\* Variant: "down" wraps one step late (> for >=).
actionDownLate(menu) ==
    IF menu.cursor + 1 > Len(menu.actions) THEN 0 ELSE menu.cursor + 1

actionDown(menu) ==
    IF menu.cursor + 1 >= Len(menu.actions) THEN 0 ELSE menu.cursor + 1

actionEnter(menu) == menu.actions[menu.cursor + 1]

actionCancel(menu) == menu

actionOther(menu) == menu

\* actionChoice.Update
actionUpdate(menu, m) ==
    IF m \notin KeyMsgs THEN [ model |-> actionOther(menu), cmd |-> "nil" ]
    ELSE CASE m \in CancelKeys -> [ model |-> actionCancel(menu), cmd |-> "Quit" ]
           [] m = "up" ->
                [ model |-> [ menu EXCEPT !.cursor = actionUp(menu) ], cmd |-> "nil" ]
           [] m = "down" ->
                [ model |-> [ menu EXCEPT !.cursor = actionDown(menu) ], cmd |-> "nil" ]
           [] m = "enter" ->
                IF InRange(menu.actions, menu.cursor)
                THEN [ model |-> [ menu EXCEPT !.selectedAction = actionEnter(menu) ],
                       cmd |-> "Quit" ]
                ELSE [ model |-> menu, cmd |-> "panic" ]
           [] OTHER -> [ model |-> actionOther(menu), cmd |-> "nil" ]

(***************************************************************************)
(* View.  An escape sequence is one element of the frame text: "<clear>"   *)
(* is \033[H\033[2J, "<0>" is \033[0m, and "<cursorColor>" and the like    *)
(* are \033[ m with the colour of that name in config.Ui.                  *)
(***************************************************************************)
renderCursor == << "<cursorColor>", ">", "<0>" >>

renderContainerSelected(c, isSelected) ==
    IF isSelected THEN << "<containerSelectedColor>" >> \o c \o << "<0>" >> ELSE c

renderActionSelected(a, isSelected) ==
    IF isSelected THEN << "<actionSelectedColor>" >> \o a \o << "<0>" >> ELSE a

\* Variant: every row down to the cursor's gets the cursor and the highlight.
containerRowUpTo(menu, i) ==
    IF menu.cursor >= i
    THEN renderCursor \o << " " >>
             \o renderContainerSelected(menu.containers[i + 1], TRUE) \o << NL >>
    ELSE << " ", " " >> \o renderContainerSelected(menu.containers[i + 1], FALSE)
             \o << NL >>

\* The loop body of lines 201-212 for Go index i: "%s %s\n"
containerRow(menu, i) ==
    IF menu.cursor = i
    THEN renderCursor \o << " " >>
             \o renderContainerSelected(menu.containers[i + 1], TRUE) \o << NL >>
    ELSE << " ", " " >> \o renderContainerSelected(menu.containers[i + 1], FALSE)
             \o << NL >>

actionRow(menu, i) ==
    IF menu.cursor = i
    THEN renderCursor \o << " " >>
             \o renderActionSelected(menu.actions[i + 1], TRUE) \o << NL >>
    ELSE << " ", " " >> \o renderActionSelected(menu.actions[i + 1], FALSE) \o << NL >>

ContainerTitle == << "C", "h", "o", "o", "s", "e", " ", "a", " ", "c", "o", "n", "t", "a", "i", "n", "e", "r", ":" >>

ActionTitle == << "C", "o", "n", "t", "a", "i", "n", "e", "r", ":", " " >>

RECURSIVE containerRows(_, _)
containerRows(menu, n) ==
    IF n = 0 THEN << >> ELSE containerRows(menu, n - 1) \o containerRow(menu, n - 1)

RECURSIVE actionRows(_, _)
actionRows(menu, n) ==
    IF n = 0 THEN << >> ELSE actionRows(menu, n - 1) \o actionRow(menu, n - 1)

\* containerChoice.View
containerView(menu) ==
    << "<clear>" >> \o ContainerTitle \o << NL, NL >>
        \o containerRows(menu, Len(menu.containers))

\* actionChoice.View
actionView(menu) ==
    << "<clear>" >> \o ActionTitle \o menu.selectedContainer.Name \o << NL, NL >>
        \o actionRows(menu, Len(menu.actions))

\* The zero values of the two model types.
NoContainerMenu == [ containers |-> << >>, cursor |-> 0, selectedContainer |-> << >> ]

NoActionMenu ==
    [ actions |-> << >>, cursor |-> 0, selectedAction |-> << >>,
      selectedContainer |-> NoContainer ]

(***************************************************************************)
(* The process: main, flagMode, chooseContainer, chooseAction, doAction.   *)
(***************************************************************************)
Args == { "none", "--run", "-r", "--help", "-h", "--version", "-v", "--other" }

RunFlags == { "--run", "-r" }

VARIABLES
    pc,                 \* where main (or flagMode) is
    args,               \* os.Args[1], "none" when there is no argument
    containers,         \* main's containers, the lines getContainers returned
    containerMenu,      \* the containerChoice model of the running program
    actionMenu,         \* the actionChoice model of the running program
    prog,               \* the tea.Program: "none", "running", "quitting" (a
                        \* Quit command was returned, its QuitMsg is not yet
                        \* handled), "panicked" (Update panicked)
    msg,                \* the message the event loop handled last
    streak,             \* the run of identical move keys handled last: the
                        \* key, how many, and the cursor before the first
    containerSelected,  \* main's containerSelected
    container,          \* main's container
    actionSelected,     \* main's actionSelected
    clipboard,          \* what pbcopy received
    diag,               \* the failure main reported, "none" if none
    exitCode,           \* the process's exit code, -1 while it runs
    twin                \* an actionChoice program fed the container program's
                        \* messages, for the comparison of the two models;
                        \* main has none

vars == << pc, args, containers, containerMenu, actionMenu, prog, msg, streak,
           containerSelected, container, actionSelected, clipboard, diag, exitCode,
           twin >>

NoTwin == [ menu |-> NoActionMenu, prog |-> "none" ]

NoStreak == [ key |-> "none", n |-> 0, from |-> 0 ]

\* The run of move keys after key m was handled with the cursor at `cursor`.
NextStreak(s, m, cursor) ==
    IF m \notin { "up", "down" } THEN NoStreak
    ELSE IF s.key = m /\ s.n <= MaxRows THEN [ s EXCEPT !.n = @ + 1 ]
    ELSE [ key |-> m, n |-> 1, from |-> cursor ]

Init ==
    /\ pc = "start"
    /\ args \in Args
    /\ containers = << >>
    /\ containerMenu = NoContainerMenu
    /\ actionMenu = NoActionMenu
    /\ prog = "none"
    /\ msg = "none"
    /\ streak = NoStreak
    /\ containerSelected = << >>
    /\ container = NoContainer
    /\ actionSelected = << >>
    /\ clipboard = << >>
    /\ diag = "none"
    /\ exitCode = -1
    /\ twin = NoTwin

\* os.Exit(code), or main returning (code 0), or an unrecovered panic (code 2)
Exit(code, why) ==
    /\ pc' = "done"
    /\ exitCode' = code
    /\ diag' = why
    /\ prog' = "none"

\* main, lines 28-48: a failed start-up check prints and exits with 1.
StartupFails ==
    /\ pc = "start"
    /\ \E why \in { "config", "not installed", "not running", "getting containers" } :
           Exit(1, why)
    /\ UNCHANGED << args, twin, containers, containerMenu, actionMenu, msg, streak,
                    containerSelected, container, actionSelected, clipboard >>

\* main, lines 50-53 with flagMode's --help, --version and unknown flags:
\* print (or not) and exit with 0.
FlagOnly ==
    /\ pc = "start"
    /\ args \notin RunFlags \cup { "none" }
    /\ Exit(0, "none")
    /\ UNCHANGED << args, twin, containers, containerMenu, actionMenu, msg, streak,
                    containerSelected, container, actionSelected, clipboard >>

\* main, lines 44 and 55 (flagMode, line 104): the listing is read and the
\* container program is started on it.
StartContainerChoice ==
    /\ pc = "start"
    /\ args \in RunFlags \cup { "none" }
    /\ \E n \in 0..MaxRows :
         /\ containers' = GetContainers(DockerOutput(n))
         /\ containerMenu' = initialContainerModel(containers')
    /\ pc' = "chooseContainer"
    /\ prog' = "running"
    /\ msg' = "none"
    /\ streak' = NoStreak
    /\ UNCHANGED << args, twin, actionMenu, containerSelected, container, actionSelected,
                    clipboard, diag, exitCode >>

\* The container program's event loop hands message m to Update.  The loop
\* goes on until the QuitMsg of a returned Quit command reaches it, so input
\* already read is handled in between.
ContainerUpdate(m) ==
    /\ pc = "chooseContainer"
    /\ prog \in { "running", "quitting" }
    /\ LET r == containerUpdate(containerMenu, m)
       IN  /\ containerMenu' = r.model
           /\ prog' = CASE r.cmd = "panic" -> "panicked"
                        [] r.cmd = "Quit"  -> "quitting"
                        [] OTHER           -> prog
    /\ msg' = m
    /\ streak' = NextStreak(streak, m, containerMenu.cursor)
    /\ UNCHANGED << pc, args, twin, containers, actionMenu, containerSelected, container,
                    actionSelected, clipboard, diag, exitCode >>

\* chooseContainer, lines 219-225: the QuitMsg ends Run, the final model's
\* selectedContainer is returned.
ContainerChosen ==
    /\ pc = "chooseContainer"
    /\ prog = "quitting"
    /\ containerSelected' = containerMenu.selectedContainer
    /\ pc' = "convert"
    /\ prog' = "none"
    /\ msg' = "QuitMsg"
    /\ UNCHANGED << args, twin, containers, containerMenu, actionMenu, streak, container,
                    actionSelected, clipboard, diag, exitCode >>

\* Run fails (lines 220-222, 319-321, then 56-59, 66-69, 105-108, 113-116):
\* an input error, or an Update panic that the library turns into an error.
RunFails ==
    /\ pc \in { "chooseContainer", "chooseAction" }
    /\ prog \in { "running", "quitting", "panicked" }
    /\ Exit(1, IF pc = "chooseContainer" THEN "choosing container" ELSE "choosing action")
    /\ msg' = "error"
    /\ UNCHANGED << args, twin, containers, containerMenu, actionMenu, streak,
                    containerSelected, container, actionSelected, clipboard >>

\* An Update panic that the library recovers without an error: Run returns a
\* nil model and the type assertion of line 224 (323) panics.
RunPanics ==
    /\ pc \in { "chooseContainer", "chooseAction" }
    /\ prog = "panicked"
    /\ Exit(2, "panic")
    /\ msg' = "panic"
    /\ UNCHANGED << args, twin, containers, containerMenu, actionMenu, streak,
                    containerSelected, container, actionSelected, clipboard >>

\* main, lines 61-65 (flagMode, 110-112): the chosen line is parsed and the
\* action program is started on the container; a parse panic ends the process.
StartActionChoice ==
    /\ pc = "convert"
    /\ LET c == convertStringToContainer(containerSelected)
       IN  IF c = Panic
           THEN /\ Exit(2, "panic")
                /\ UNCHANGED << container, actionMenu, msg, streak >>
           ELSE /\ container' = c
                /\ actionMenu' = initialActionModel(c)
                /\ pc' = "chooseAction"
                /\ prog' = "running"
                /\ msg' = "none"
                /\ streak' = NoStreak
                /\ UNCHANGED << diag, exitCode >>
    /\ UNCHANGED << args, twin, containers, containerMenu, containerSelected,
                    actionSelected, clipboard >>

ActionUpdate(m) ==
    /\ pc = "chooseAction"
    /\ prog \in { "running", "quitting" }
    /\ LET r == actionUpdate(actionMenu, m)
       IN  /\ actionMenu' = r.model
           /\ prog' = CASE r.cmd = "panic" -> "panicked"
                        [] r.cmd = "Quit"  -> "quitting"
                        [] OTHER           -> prog
    /\ msg' = m
    /\ streak' = NextStreak(streak, m, actionMenu.cursor)
    /\ UNCHANGED << pc, args, twin, containers, containerMenu, containerSelected, container,
                    actionSelected, clipboard, diag, exitCode >>

\* chooseAction, lines 318-324; in flag mode (lines 118, 52) the label is
\* printed and the process exits with 0.
ActionChosen ==
    /\ pc = "chooseAction"
    /\ prog = "quitting"
    /\ actionSelected' = actionMenu.selectedAction
    /\ msg' = "QuitMsg"
    /\ IF args \in RunFlags
       THEN Exit(0, "none")
       ELSE /\ pc' = "doAction"
            /\ prog' = "none"
            /\ UNCHANGED << diag, exitCode >>
    /\ UNCHANGED << args, twin, containers, containerMenu, actionMenu, streak,
                    containerSelected, container, clipboard >>

\* doAction's effect on the label: "exit", "copy" or "nothing"
doAction(action) ==
    CASE action = ExitLabel -> "exit"
      [] action = CopyLabel -> "copy"
      [] OTHER -> "nothing"

\* Variant: the container's name is copied.
copyPayloadName(c) == c.Name

\* line 332: the text doAction hands to copyContainerId
copyPayload(c) == c.ID

\* Variant: a failed copy is dropped and doAction returns nil.
onCopyErrorDropped == [ code |-> 0, diag |-> "none" ]

\* lines 334-337: doAction prints the error of a failed copy and exits with 1
onCopyError == [ code |-> 1, diag |-> "copying container ID" ]

\* main, lines 71-76, with doAction and copyContainerId; pbcopy may fail.
DoAction ==
    /\ pc = "doAction"
    /\ LET effect == doAction(actionSelected)
       IN  CASE effect = "exit" -> Exit(0, "none") /\ UNCHANGED clipboard
             [] effect = "copy" ->
                  \/ clipboard' = copyPayload(container) /\ Exit(0, "none")
                  \/ UNCHANGED clipboard /\ Exit(onCopyError.code, onCopyError.diag)
             [] OTHER -> Exit(0, "none") /\ UNCHANGED clipboard
    /\ UNCHANGED << args, twin, containers, containerMenu, actionMenu, msg, streak,
                    containerSelected, container, actionSelected >>

Next ==
    \/ StartupFails
    \/ FlagOnly
    \/ StartContainerChoice
    \/ \E m \in Msgs : ContainerUpdate(m)
    \/ ContainerChosen
    \/ RunFails
    \/ RunPanics
    \/ StartActionChoice
    \/ \E m \in Msgs : ActionUpdate(m)
    \/ ActionChosen
    \/ DoAction

Spec == Init /\ [][Next]_vars

TypeOK ==
    /\ pc \in { "start", "chooseContainer", "convert", "chooseAction", "doAction", "done" }
    /\ prog \in { "none", "running", "quitting", "panicked" }
    /\ exitCode \in { -1, 0, 1, 2 }
    /\ (pc = "done") = (exitCode /= -1)

(***************************************************************************)
(* The parser on its own: main is at line 61 with any line in              *)
(* containerSelected, of 0 to MaxTokens fields, separated and surrounded   *)
(* by blanks and tabs in three ways, and the scenario line of the          *)
(* specification.                                                          *)
(***************************************************************************)
\* Field j of a sample line, in spelling v.
Tok(j, v) ==
    IF v = 1 THEN << "t", Digit(j \div 10), Digit(j) >>
    ELSE << Digit(j \div 10), Digit(j), "-", "x" >>

Styles == 1..3

Spellings == 1..2

Sep(st) == CASE st = 1 -> << " " >> [] st = 2 -> << " ", " ", " " >> [] OTHER -> << "\t" >>

Lead(st) == CASE st = 1 -> << >> [] st = 2 -> << " " >> [] OTHER -> << "\t", " " >>

Trail(st) == CASE st = 1 -> << >> [] st = 2 -> << " ", " " >> [] OTHER -> << " ", "\t" >>

SampleLine(k, st, v) ==
    Lead(st) \o Join([ j \in 1..k |-> Tok(j, v) ], Sep(st)) \o Trail(st)

ScenarioLine ==
    << "a", "b", "c", "1", "2", "3", " ", "n", "g", "i", "n", "x", ":", "l",
       "a", "t", "e", "s", "t", " ", "\"", "n", "g", "i", "n", "x", " ", "-",
       "g", "\"", " ", "2", " ", "d", "a", "y", "s", " ", "a", "g", "o", " ",
       "U", "p", " ", "2", " ", "d", "a", "y", "s", " ", "0", ".", "0", ".",
       "0", ".", "0", ":", "8", "0", "-", ">", "8", "0", "/", "t", "c", "p",
       " ", "w", "e", "b" >>

SampleLines ==
    { SampleLine(k, st, v) : k \in 0..MaxTokens, st \in Styles, v \in Spellings }
        \cup { ScenarioLine }

InitParse ==
    /\ pc = "convert"
    /\ args = "none"
    /\ containerSelected \in SampleLines
    /\ containers = << containerSelected >>
    /\ containerMenu = [ containers |-> containers, cursor |-> 0,
                         selectedContainer |-> containerSelected ]
    /\ actionMenu = NoActionMenu
    /\ prog = "none"
    /\ msg = "QuitMsg"
    /\ streak = NoStreak
    /\ container = NoContainer
    /\ actionSelected = << >>
    /\ clipboard = << >>
    /\ diag = "none"
    /\ exitCode = -1
    /\ twin = NoTwin

NextParse == StartActionChoice

SpecParse == InitParse /\ [][NextParse]_vars

(***************************************************************************)
(* The two models side by side: a containerChoice program over n listed    *)
(* rows and an actionChoice program over n labels (the two labels of       *)
(* initialActionModel, cut or continued to n) handle the same messages.    *)
(***************************************************************************)
SampleLabels(n) ==
    [ i \in 1..n |-> IF i <= Len(ActionLabels) THEN ActionLabels[i]
                     ELSE << "a", Digit(i) >> ]

\* The model of lines 254-259 over the given labels.
actionModelOver(labels, c) ==
    [ actions |-> labels, cursor |-> Len(labels) - 1,
      selectedAction |-> << >>, selectedContainer |-> c ]

InitLockstep ==
    /\ pc = "chooseContainer"
    /\ args = "none"
    /\ \E n \in 0..MaxRows :
         /\ containers = GetContainers(DockerOutput(n))
         /\ twin = [ menu |-> actionModelOver(SampleLabels(n), NoContainer),
                     prog |-> "running" ]
    /\ containerMenu = initialContainerModel(containers)
    /\ actionMenu = NoActionMenu
    /\ prog = "running"
    /\ msg = "none"
    /\ streak = NoStreak
    /\ containerSelected = << >>
    /\ container = NoContainer
    /\ actionSelected = << >>
    /\ clipboard = << >>
    /\ diag = "none"
    /\ exitCode = -1

\* The program state after Update returned cmd.
ProgAfter(p, cmd) ==
    CASE cmd = "panic" -> "panicked"
      [] cmd = "Quit"  -> "quitting"
      [] OTHER         -> p

\* Both event loops hand message m to their Update.
LockstepUpdate(m) ==
    /\ pc = "chooseContainer"
    /\ prog \in { "running", "quitting" }
    /\ twin.prog \in { "running", "quitting" }
    /\ LET rc == containerUpdate(containerMenu, m)
           ra == actionUpdate(twin.menu, m)
       IN  /\ containerMenu' = rc.model
           /\ prog' = ProgAfter(prog, rc.cmd)
           /\ twin' = [ menu |-> ra.model, prog |-> ProgAfter(twin.prog, ra.cmd) ]
    /\ msg' = m
    /\ streak' = NextStreak(streak, m, containerMenu.cursor)
    /\ UNCHANGED << pc, args, containers, actionMenu, containerSelected, container,
                    actionSelected, clipboard, diag, exitCode >>

\* The QuitMsg ends the container program; the other program ends with it if
\* it returned Quit too.  Each hands back its selection (lines 225, 324).
LockstepReturn ==
    /\ pc = "chooseContainer"
    /\ prog = "quitting"
    /\ containerSelected' = containerMenu.selectedContainer
    /\ actionSelected' = twin.menu.selectedAction
    /\ twin' = [ twin EXCEPT !.prog = IF @ = "quitting" THEN "none" ELSE @ ]
    /\ pc' = "done"
    /\ prog' = "none"
    /\ msg' = "QuitMsg"
    /\ exitCode' = 0
    /\ UNCHANGED << args, containers, containerMenu, actionMenu, streak, container,
                    clipboard, diag >>

NextLockstep ==
    \/ \E m \in Msgs : LockstepUpdate(m)
    \/ LockstepReturn

SpecLockstep == InitLockstep /\ [][NextLockstep]_vars

(***************************************************************************)
(* Properties                                                              *)
(***************************************************************************)
\* A step of the container program's event loop, of the action program's.
ContainerStep == pc = "chooseContainer" /\ pc' = "chooseContainer"

ActionStep == pc = "chooseAction" /\ pc' = "chooseAction"

\* C1: enter on a non-empty list always succeeds (Update returns Quit, no
\* panic) and records the item at the cursor as it is when enter is handled,
\* in the container program and in the action program.
C1_CommitTakesItemAtCursor ==
    [][ /\ (ContainerStep /\ msg' = "enter" /\ containerMenu.containers /= << >>)
            => /\ prog' = "quitting"
               /\ containerMenu'.selectedContainer =
                      containerMenu.containers[containerMenu.cursor + 1]
               /\ containerMenu'.selectedContainer =
                      containerMenu'.containers[containerMenu'.cursor + 1]
        /\ (ActionStep /\ msg' = "enter" /\ actionMenu.actions /= << >>)
            => /\ prog' = "quitting"
               /\ actionMenu'.selectedAction = actionMenu.actions[actionMenu.cursor + 1]
               /\ actionMenu'.selectedAction = actionMenu'.actions[actionMenu'.cursor + 1]
      ]_vars

\* Both programs committed after the cursor was moved off its first position.
C1_Witness ==
    /\ pc = "chooseAction" /\ msg = "enter" /\ prog = "quitting"
    /\ Len(containers) = 3 /\ containerMenu.cursor = 0
    /\ containerSelected = containers[1]
    /\ actionMenu.cursor = 0 /\ actionMenu.selectedAction = ActionLabels[1]

\* C3: over a non-empty list the cursor is always an index of the list.
C3_CursorInRange ==
    /\ containerMenu.containers /= << >>
         => InRange(containerMenu.containers, containerMenu.cursor)
    /\ actionMenu.actions /= << >> => InRange(actionMenu.actions, actionMenu.cursor)

\* "down" wrapped from the last index after a Quit command was returned.
C3_Witness ==
    /\ pc = "chooseContainer" /\ prog = "quitting" /\ msg = "down"
    /\ Len(containerMenu.containers) = 3 /\ containerMenu.cursor = 0
    /\ streak = [ key |-> "down", n |-> 1, from |-> 2 ]

\* C2: enter on an empty list fails with an error that the caller of the
\* session receives (main reports it and exits with 1), and no selection is
\* recorded.  Stated of the ways the session can end once Update has hit the
\* empty list: prog = "panicked" while it runs, msg = "panic" or "error" after.
C2_EmptyCommitReturnsError ==
    /\ (pc = "chooseContainer" /\ prog = "panicked")
         => containerMenu.selectedContainer = << >>
    /\ (pc = "done" /\ containers = << >> /\ msg \in { "panic", "error" })
         => /\ exitCode = 1
            /\ diag = "choosing container"
            /\ containerMenu.selectedContainer = << >>

\* The states of the spec's list model, read off the program: Active while
\* no Quit command was returned, then Committed or Cancelled by whether a
\* selection is recorded; Failed after an Update panic.
SessionState(selected) ==
    CASE prog = "running"  -> "Active"
      [] prog = "panicked" -> "Failed"
      [] selected /= << >> -> "Committed"
      [] OTHER             -> "Cancelled"

ContainerState == SessionState(containerMenu.selectedContainer)

ActionState == SessionState(actionMenu.selectedAction)

\* The elements of a sequence.
Range(seq) == { seq[i] : i \in 1..Len(seq) }

\* C4: an action program exists only after the container program ended with
\* a selection, and it holds the Container parsed from that selection; the
\* clipboard receives nothing but that Container's ID.  After a container
\* program that ended without a selection there is no action program and no
\* copy.
C4_ActionAfterCommittedContainer ==
    /\ (actionMenu /= NoActionMenu \/ pc \in { "chooseAction", "doAction" }
            \/ clipboard /= << >>)
         => /\ containerSelected /= << >>
            /\ containerSelected = containerMenu.selectedContainer
            /\ containerSelected \in Range(containers)
            /\ container = convertStringToContainer(containerSelected)
            /\ actionMenu = [ initialActionModel(container) EXCEPT
                                  !.cursor = actionMenu.cursor,
                                  !.selectedAction = actionMenu.selectedAction ]
            /\ clipboard \in { << >>, container.ID }
    /\ (pc \in { "convert", "done" } /\ containerMenu.selectedContainer = << >>)
         => /\ actionMenu = NoActionMenu
            /\ container = NoContainer
            /\ clipboard = << >>

\* The ID of the second of three containers was copied.
C4_Witness ==
    /\ pc = "done" /\ exitCode = 0
    /\ Len(containers) = 3 /\ containerSelected = containers[2]
    /\ actionMenu.selectedContainer.ID = << "c", "2" >>
    /\ clipboard = << "c", "2" >>

\* C5: a cancel key handled in the Active state returns Quit and leaves the
\* model as it was, with no selection (the state is Cancelled); the caller
\* receives the model's selection field, and since no item is the empty
\* string, the empty value it receives for Cancelled is no item.
C5_CancelStep ==
    /\ (ContainerStep /\ prog = "running" /\ msg' \in CancelKeys)
         => /\ containerMenu' = containerMenu
            /\ containerMenu'.selectedContainer = << >>
            /\ prog' = "quitting"
    /\ (ActionStep /\ prog = "running" /\ msg' \in CancelKeys)
         => /\ actionMenu' = actionMenu
            /\ actionMenu'.selectedAction = << >>
            /\ prog' = "quitting"

C5_CallerSeesOutcome ==
    /\ << >> \notin Range(containerMenu.containers)
    /\ << >> \notin Range(actionMenu.actions)
    /\ pc \in { "convert", "chooseAction", "doAction" }
         => containerSelected = containerMenu.selectedContainer
    /\ pc = "doAction" => actionSelected = actionMenu.selectedAction

C5_CancelRecordsNothing == [][C5_CancelStep]_vars /\ []C5_CallerSeesOutcome

\* esc was handled by the Active action program after its cursor was moved.
C5_Witness ==
    /\ pc = "chooseAction" /\ msg = "esc" /\ ActionState = "Cancelled"
    /\ actionMenu.cursor = 0 /\ containerSelected /= << >>

\* C6: once a Quit command was returned (the state is Committed or
\* Cancelled) no message handled afterwards changes the recorded selection.
C6_TerminalStep ==
    /\ (ContainerStep /\ prog = "quitting")
         => containerMenu'.selectedContainer = containerMenu.selectedContainer
    /\ (ActionStep /\ prog = "quitting")
         => actionMenu'.selectedAction = actionMenu.selectedAction

C6_TerminalStatesAreFinal == [][C6_TerminalStep]_vars

\* C7: over a non-empty list, len(items) "down" keys in a row bring the
\* cursor back to where it was before the first of them, and so do
\* len(items) "up" keys.
C7_WrapAroundLaw ==
    /\ (pc \in { "chooseContainer", "convert" } /\ containerMenu.containers /= << >>
            /\ streak.n = Len(containerMenu.containers))
         => containerMenu.cursor = streak.from
    /\ (pc \in { "chooseAction", "doAction" } /\ streak.n = Len(actionMenu.actions))
         => actionMenu.cursor = streak.from

\* Three "down" keys over three containers, from the middle one.
C7_Witness ==
    /\ pc = "chooseContainer" /\ Len(containerMenu.containers) = 3
    /\ streak = [ key |-> "down", n |-> 3, from |-> 1 ]
    /\ containerMenu.cursor = 1

\* C8: over a non-empty list "up" sets the cursor to (cursor - 1) modulo
\* len(items) and "down" to (cursor + 1) modulo len(items); the items and
\* the selection are unchanged.
C8_MoveStep ==
    /\ (ContainerStep /\ containerMenu.containers /= << >> /\ msg' \in { "up", "down" })
         => LET n == Len(containerMenu.containers)
                d == IF msg' = "up" THEN n - 1 ELSE 1
            IN  containerMenu' =
                    [ containerMenu EXCEPT !.cursor = (containerMenu.cursor + d) % n ]
    /\ (ActionStep /\ actionMenu.actions /= << >> /\ msg' \in { "up", "down" })
         => LET n == Len(actionMenu.actions)
                d == IF msg' = "up" THEN n - 1 ELSE 1
            IN  actionMenu' = [ actionMenu EXCEPT !.cursor = (actionMenu.cursor + d) % n ]

C8_MoveIsModular == [][C8_MoveStep]_vars

\* "up" at index 0 of three containers went to index 2.
C8_Witness ==
    /\ pc = "chooseContainer" /\ Len(containerMenu.containers) = 3
    /\ msg = "up" /\ streak.from = 0 /\ streak.n = 1
    /\ containerMenu.cursor = 2

\* C9 as stated: over an empty list "up" and "down" leave the whole model,
\* the cursor included, as it was.
C9_EmptyMoveStep ==
    (ContainerStep /\ containerMenu.containers = << >> /\ msg' \in { "up", "down" })
        => containerMenu' = containerMenu

C9_EmptyMoveIsNoOp == [][C9_EmptyMoveStep]_vars

\* C9 amended: over an empty list "up" and "down" leave the items and the
\* selection as they were and return no command; "up" sets the cursor to -1
\* (its initial value) and "down" sets it to 0.
C9_EmptyMoveStepAmended ==
    (ContainerStep /\ containerMenu.containers = << >> /\ msg' \in { "up", "down" })
        => /\ containerMenu' =
                  [ containerMenu EXCEPT !.cursor = IF msg' = "up" THEN -1 ELSE 0 ]
           /\ prog' = prog

C9_EmptyMoveKeepsItems == [][C9_EmptyMoveStepAmended]_vars

\* "down" was handled over the empty list.
C9_Witness ==
    /\ pc = "chooseContainer" /\ containerMenu.containers = << >>
    /\ msg = "down" /\ containerMenu.cursor = 0 /\ prog = "running"

\* C10: a program starts Active with no selection and the cursor on the
\* last item; for the action program that item is "Copy container ID".
C10_InitialState ==
    /\ (pc = "chooseContainer" /\ msg = "none")
         => /\ ContainerState = "Active"
            /\ containerMenu.selectedContainer = << >>
            /\ containerMenu.containers = containers
            /\ containerMenu.containers /= << >>
                 => containerMenu.cursor = Len(containerMenu.containers) - 1
    /\ (pc = "chooseAction" /\ msg = "none")
         => /\ ActionState = "Active"
            /\ actionMenu.selectedAction = << >>
            /\ actionMenu.cursor = Len(actionMenu.actions) - 1
            /\ actionMenu.actions[actionMenu.cursor + 1] = CopyLabel

\* The action program has just started, after the third of three containers
\* was chosen.
C10_Witness ==
    /\ pc = "chooseAction" /\ msg = "none" /\ prog = "running"
    /\ Len(containers) = 3 /\ containerSelected = containers[3]

\* C11: a message that is none of up, down, enter, q, esc, ctrl+c (another
\* key, or not a key message) leaves the model as it was and returns no
\* command, so the program goes on as before.
C11_OtherStep ==
    /\ (ContainerStep /\ msg' \notin CancelKeys \cup { "up", "down", "enter" })
         => containerMenu' = containerMenu /\ prog' = prog
    /\ (ActionStep /\ msg' \notin CancelKeys \cup { "up", "down", "enter" })
         => actionMenu' = actionMenu /\ prog' = prog

C11_OtherIsIgnored == [][C11_OtherStep]_vars

\* A window-size message was handled with the cursor on the middle container.
C11_Witness ==
    /\ pc = "chooseContainer" /\ msg = "WindowSizeMsg" /\ prog = "running"
    /\ Len(containerMenu.containers) = 3 /\ containerMenu.cursor = 1

\* Labels outside the closed set, as samples.
OtherLabels == { << >>, <<"e","x","i","t">>, <<"C","o","p","y">>, <<"E","x","i","t"," ">> }

\* C13: doAction on "Exit" ends the process with 0 and copies nothing; on
\* "Copy container ID" it copies the ID of the container the action program
\* was started on (or fails, code 1); on any other label, the empty one of
\* a cancelled action program included, it does nothing and returns nil.
C13_ResolveStep ==
    (pc = "doAction" /\ pc' = "done")
        => CASE actionSelected = ExitLabel ->
                  exitCode' = 0 /\ clipboard' = clipboard /\ diag' = "none"
             [] actionSelected = CopyLabel ->
                  \/ /\ clipboard' = actionMenu.selectedContainer.ID
                     /\ clipboard' \notin { actionMenu.selectedContainer.Name,
                                            actionMenu.selectedContainer.Image }
                     /\ exitCode' = 0
                  \/ clipboard' = clipboard /\ exitCode' = 1
             [] OTHER -> exitCode' = 0 /\ clipboard' = clipboard /\ diag' = "none"

C13_Labels ==
    /\ doAction(ExitLabel) = "exit"
    /\ doAction(CopyLabel) = "copy"
    /\ \A l \in OtherLabels : doAction(l) = "nothing"
    /\ pc = "doAction" => actionSelected \in { << >>, ExitLabel, CopyLabel }

C13_ActionResolver == [][C13_ResolveStep]_vars /\ []C13_Labels

\* "Copy container ID" was resolved for the first container: its ID is on
\* the clipboard.
C13_Witness ==
    /\ pc = "done" /\ actionSelected = CopyLabel /\ exitCode = 0
    /\ container.Name = << "w", "1" >> /\ clipboard = << "c", "1" >>

\* C14: every run ends with code 0 or 1, 1 exactly when a failure was
\* detected and reported.
C14_ExitCodes ==
    pc = "done" => /\ exitCode \in { 0, 1 }
                   /\ (exitCode = 1) = (diag /= "none")

\* The copy was asked for and failed: "Copy container ID" was chosen in
\* interactive mode, the process is over and the clipboard holds nothing.
CopyFailed ==
    pc = "done" /\ args = "none" /\ actionSelected = CopyLabel /\ clipboard = << >>

\* C15 as stated: on a failed copy doAction returns the error to main, which
\* reports it (line 73) and exits with 1.
C15_ErrorReturnedToMain == CopyFailed => exitCode = 1 /\ diag = "doing action"

\* C15 amended: on a failed copy doAction itself prints the error and ends
\* the process with code 1 (lines 334-337); there is no second attempt.
C15_ErrorEndsRun == CopyFailed => exitCode = 1 /\ diag = "copying container ID"

C15_Witness == CopyFailed /\ exitCode = 1 /\ Len(containers) = 2

\* The line parsed is a sample line of k fields.
HasFields(k) ==
    \E st \in Styles, v \in Spellings : containerSelected = SampleLine(k, st, v)

\* C12: a line of fewer than 3 fields is rejected with an error that main
\* can report (exit code 1, no crash), no Container is made of it and no
\* action program is started.
C12_ShortLineRejected ==
    (pc /= "convert" /\ \E k \in 0..2 : HasFields(k))
        => /\ pc = "done" /\ exitCode = 1 /\ diag /= "panic"
           /\ container = NoContainer
           /\ actionMenu = NoActionMenu

\* C16: a parsed line of fields t[0..n) gives ID t[0], Image t[1], Command
\* t[2], Created t[3] t[4] t[5] joined by single blanks, Name t[n-1], Ports
\* empty, and Status t[6] t[7] t[8] t[9] joined by single blanks exactly
\* when n > 10; the scenario line gives abc123, nginx:latest and web.
C16_FieldAssignment ==
    pc = "chooseAction"
        => /\ \A k \in 0..MaxTokens, st \in Styles, v \in Spellings :
                containerSelected = SampleLine(k, st, v)
                    => container =
                         [ ID      |-> Tok(1, v),
                           Image   |-> Tok(2, v),
                           Command |-> Tok(3, v),
                           Created |-> Tok(4, v) \o << " " >> \o Tok(5, v)
                                           \o << " " >> \o Tok(6, v),
                           Status  |-> IF k > 10
                                       THEN Tok(7, v) \o << " " >> \o Tok(8, v)
                                                \o << " " >> \o Tok(9, v)
                                                \o << " " >> \o Tok(10, v)
                                       ELSE << >>,
                           Ports   |-> << >>,
                           Name    |-> Tok(k, v) ]
           /\ containerSelected = ScenarioLine
                => /\ container.ID = << "a", "b", "c", "1", "2", "3" >>
                   /\ container.Image =
                          << "n", "g", "i", "n", "x", ":", "l", "a", "t", "e", "s", "t" >>
                   /\ container.Name = << "w", "e", "b" >>
                   /\ container.Ports = << >>
           /\ actionMenu.selectedContainer = container

\* The scenario line was parsed.
C16_Witness == pc = "chooseAction" /\ containerSelected = ScenarioLine

\* C19: every line of 3 or more fields is parsed into a Container, with no
\* error and no crash.
C19_ThreeFieldsParse ==
    (pc /= "convert" /\ \E k \in 3..MaxTokens : HasFields(k))
        => /\ pc = "chooseAction"
           /\ container /= NoContainer
           /\ exitCode = -1

\* C17: the selectable items are exactly the N data rows of the listing,
\* in order; the header is none of them; each parses into a Container with
\* the row's (non-empty) ID and name.
C17_ListingRows ==
    pc = "chooseContainer"
        => /\ \E n \in 0..MaxRows : containers = [ i \in 1..n |-> Row(i) ]
           /\ containerMenu.containers = containers
           /\ HeaderLine \notin Range(containers)
           /\ \A i \in 1..Len(containers) :
                LET c == convertStringToContainer(containers[i])
                IN  /\ c /= Panic
                    /\ c.ID = << "c", Digit(i) >> /\ c.ID /= << >>
                    /\ c.Name = << "w", Digit(i) >> /\ c.Name /= << >>

\* Three rows were listed and the container program has just started on them.
C17_Witness ==
    /\ pc = "chooseContainer" /\ msg = "none"
    /\ Len(containers) = 3 /\ containers[3] = Row(3)

\* The lines of a frame: the pieces between its line ends.
FrameLines(frame) == Split(frame, NL)

\* The frame's line for item i (from 1) shows the cursor and the highlight.
Marked(line) == Len(line) >= 3 /\ SubSeq(line, 1, 3) = renderCursor

\* C18: the frame of a model over a non-empty list has, after the title and
\* an empty line, one line per item in order; the line of the item under
\* the cursor, and no other, starts with the cursor glyph and has its label
\* in the highlight colour; the others start with a blank and have their
\* label plain.
C18_ContainerFrame ==
    (pc = "chooseContainer" /\ containerMenu.containers /= << >>)
        => LET items == containerMenu.containers
               lines == FrameLines(containerView(containerMenu))
           IN  /\ Len(lines) = Len(items) + 3
               /\ lines[1] = << "<clear>" >> \o ContainerTitle
               /\ lines[2] = << >> /\ lines[Len(lines)] = << >>
               /\ { i \in 1..Len(items) : Marked(lines[i + 2]) }
                      = { containerMenu.cursor + 1 }
               /\ \A i \in 1..Len(items) :
                    lines[i + 2] =
                        IF i = containerMenu.cursor + 1
                        THEN << "<cursorColor>", ">", "<0>", " ",
                                "<containerSelectedColor>" >> \o items[i] \o << "<0>" >>
                        ELSE << " ", " " >> \o items[i]

C18_ActionFrame ==
    pc = "chooseAction"
        => LET items == actionMenu.actions
               lines == FrameLines(actionView(actionMenu))
           IN  /\ Len(lines) = Len(items) + 3
               /\ lines[1] = << "<clear>" >> \o ActionTitle \o container.Name
               /\ lines[2] = << >> /\ lines[Len(lines)] = << >>
               /\ { i \in 1..Len(items) : Marked(lines[i + 2]) }
                      = { actionMenu.cursor + 1 }
               /\ \A i \in 1..Len(items) :
                    lines[i + 2] =
                        IF i = actionMenu.cursor + 1
                        THEN << "<cursorColor>", ">", "<0>", " ",
                                "<actionSelectedColor>" >> \o items[i] \o << "<0>" >>
                        ELSE << " ", " " >> \o items[i]

C18_FrameMarksCursorRow == C18_ContainerFrame /\ C18_ActionFrame

\* The frame of three containers with the cursor on the middle one.
C18_Witness ==
    /\ pc = "chooseContainer" /\ Len(containerMenu.containers) = 3
    /\ containerMenu.cursor = 1 /\ msg = "up"
    /\ Marked(FrameLines(containerView(containerMenu))[4])

\* C20: started on lists of one length and fed the same messages, the
\* containerChoice and the actionChoice program always have the same cursor
\* and the same program state (so they return Quit, and panic, on the same
\* messages), and their selections are the items at one index.
C20_SameStateMachine ==
    /\ Len(containerMenu.containers) = Len(twin.menu.actions)
    /\ containerMenu.cursor = twin.menu.cursor
    /\ prog = twin.prog
    /\ \/ containerMenu.selectedContainer = << >> /\ twin.menu.selectedAction = << >>
       \/ \E i \in 1..Len(containers) :
            /\ containerMenu.selectedContainer = containerMenu.containers[i]
            /\ twin.menu.selectedAction = twin.menu.actions[i]
    /\ pc = "done"
         => /\ containerSelected = containerMenu.selectedContainer
            /\ actionSelected = twin.menu.selectedAction
    /\ initialActionModel(NoContainer) = actionModelOver(ActionLabels, NoContainer)

\* Both programs ended with the first of three items, after moves that
\* wrapped around.
C20_Witness ==
    /\ pc = "done" /\ Len(containers) = 3
    /\ containerSelected = containers[1] /\ actionSelected = ActionLabels[1]
    /\ streak = [ key |-> "down", n |-> 1, from |-> 2 ]

====
